---- MODULE Spec2Model ----
(***************************************************************************)
(* A model of the randomness derivation engine of the nois crate: range    *)
(* sampling (integers.rs), Fisher-Yates shuffle (shuffle.rs), partial      *)
(* shuffle (pick.rs), weighted selection (select_from_weighted.rs), the    *)
(* sub-randomness providers (sub_randomness.rs), the die (dice.rs), the    *)
(* coin (coinflip.rs), the decoding of a hex randomness (encoding.rs) and  *)
(* the functions exported to JavaScript (js/mod.rs, js_wrapper.rs).        *)
(*                                                                         *)
(* Every derivation is a pure function of a 32-byte randomness and its     *)
(* arguments.  A call is drawn in the initial state, one action applies    *)
(* the function to it and stores what the call returned (a value, an Err   *)
(* or a panic).  The providers are objects with a state: they are built    *)
(* and pulled from by actions of their own.                                *)
(*                                                                         *)
(* Scaling.  The generator (Xoshiro256PlusPlus) is represented by the      *)
(* stream of words it emits: a randomness is identified with the first     *)
(* StreamLen words of its stream.  Machine words are WideBits wide instead *)
(* of 32/64 bits, the small integer types NarrowBits wide instead of 8/16  *)
(* bits; the arithmetic of the samplers (wrapping, widening multiply,      *)
(* leading zeros, casts) is kept as the code does it, at these widths.     *)
(* The 128-bit types, whose raw value is made of two generator words, take *)
(* the same sampler path as the word types and are not modelled apart.     *)
(***************************************************************************)
EXTENDS Integers, Sequences, FiniteSets

\* pc: "ready" before the call, "done" once it has returned or panicked
\* op: the function called; Randomness .. N: its arguments (T is Ty);
\* result: what the call returned
VARIABLES pc, op, Randomness, Ty, Begin, End, Count, Data, N, result

\* KeyHash: the value of xxh3_128 on every key (a function of the key, the
\* same throughout a behaviour); providers: the SubRandomnessProvider objects
\* that exist, with the values each has returned so far.  Both are empty in
\* the specifications that make no sub-randomness.
VARIABLES KeyHash, providers

args == <<op, Randomness, Ty, Begin, End, Count, Data, N>>
vars == <<pc, args, result, KeyHash, providers>>

(***************************************************************************)
(* Bounds of the model                                                     *)
(***************************************************************************)
\* number of freely chosen words at the head of a generator stream
StreamLen == 2
\* largest `count` handed to ints_in_range
MaxCount == 2
\* longest vector handed to shuffle and pick
MaxLen == 3

(***************************************************************************)
(* Integer types: integers.rs, impl Int for u8 ... isize                   *)
(***************************************************************************)
\* width of u32, u64, usize, i32, i64, isize (scaled)
WideBits == 3
\* width of u8, u16, i8, i16 (scaled)
NarrowBits == 2

Pow2(n) == 2 ^ n

\* the values of the generator's raw output word ($u_large)
LargeModulus == Pow2(WideBits)
Word == 0 .. (LargeModulus - 1)

Types ==
    { [bits |-> b, signed |-> s] : b \in {NarrowBits, WideBits}, s \in BOOLEAN }

USIZE == [bits |-> WideBits, signed |-> FALSE]

MinOf(T) == IF T.signed THEN -Pow2(T.bits - 1) ELSE 0
MaxOf(T) == IF T.signed THEN Pow2(T.bits - 1) - 1 ELSE Pow2(T.bits) - 1
Values(T) == MinOf(T) .. MaxOf(T)

\* `x as $unsigned`: the value modulo 2^bits
AsUnsigned(T, x) == x % Pow2(T.bits)
\* `x as $ty`, and the result of wrapping_add / wrapping_sub in $ty
AsTy(T, x) == MinOf(T) + ((x - MinOf(T)) % Pow2(T.bits))

(***************************************************************************)
(* The generator                                                           *)
(***************************************************************************)
Seeds == [1 .. StreamLen -> Word]

\* The period of the stream is the seed's words followed by the word 0: as
\* in a period of xoshiro256++, every sampler finds a word it accepts.
make_prng(randomness) ==
    [stream |-> randomness \o <<0>>, pos |-> 1, drawn |-> 0]

\* rng.gen::<$u_large>(): the next word of the stream, and the advanced state
NextWord(rng) == rng.stream[rng.pos]
Advance(rng) ==
    [rng EXCEPT !.pos = (rng.pos % Len(rng.stream)) + 1, !.drawn = rng.drawn + 1]

\* rng.gen::<T>() (the Standard distribution): one word, cast to T
Standard_gen(T, rng) ==
    [kind |-> "ok", value |-> AsTy(T, NextWord(rng)), rng |-> Advance(rng)]

Panic(msg) == [kind |-> "panic", msg |-> msg]

(***************************************************************************)
(* rand: UniformInt, the two samplers behind gen_range and Uniform         *)
(***************************************************************************)
\* `range.leading_zeros()` of a $u_large
RECURSIVE LeadingZerosFrom(_, _)
LeadingZerosFrom(x, bit) ==
    IF bit < 0 \/ x >= Pow2(bit) THEN 0 ELSE 1 + LeadingZerosFrom(x, bit - 1)
leading_zeros(x) == LeadingZerosFrom(x, WideBits - 1)

\* high.wrapping_sub(low).wrapping_add(1) as $unsigned as $u_large
RangeOf(T, low, high) == AsUnsigned(T, high - low + 1)

\* $unsigned::MAX <= u16::MAX: the types that take the modulus zone
IsSmallType(T) == Pow2(T.bits) - 1 <= Pow2(NarrowBits) - 1

\* (unsigned_max - range + 1) % range
IntsToReject(range) == ((LargeModulus - 1) - range + 1) % range

\* the zone of sample_single_inclusive
SingleZone(T, range) ==
    IF IsSmallType(T)
    THEN (LargeModulus - 1) - IntsToReject(range)
    ELSE ((range * Pow2(leading_zeros(range))) % LargeModulus) - 1

\* the zone of UniformInt::sample: unsigned_max - z
UniformZone(range) == (LargeModulus - 1) - IntsToReject(range)

\* v.wmul(range): the widening multiply, (hi, lo)
WmulHi(v, range) == (v * range) \div LargeModulus
WmulLo(v, range) == (v * range) % LargeModulus

\* mutant: the raw word reduced modulo the width of the range
Outcome_modulo(T, low, range, zone, v) ==
    [accept |-> TRUE, value |-> AsTy(T, low + (v % range))]

\* One turn of the rejection loop on the raw word v: whether the word is
\* accepted, and then the value returned; a rejected word makes the loop draw
\* again.
Outcome(T, low, range, zone, v) ==
    IF WmulLo(v, range) <= zone
    THEN [accept |-> TRUE, value |-> AsTy(T, low + WmulHi(v, range))]
    ELSE [accept |-> FALSE]

\* loop { let v = rng.gen(); let (hi, lo) = v.wmul(range); if lo <= zone { return ... } }
RECURSIVE SampleLoop(_, _, _, _, _)
SampleLoop(T, low, range, zone, rng) ==
    LET o == Outcome(T, low, range, zone, NextWord(rng))
    IN  IF o.accept
        THEN [kind |-> "ok", value |-> o.value, rng |-> Advance(rng)]
        ELSE SampleLoop(T, low, range, zone, Advance(rng))

\* UniformSampler::sample_single_inclusive(low, high, rng)
sample_single_inclusive(T, low, high, rng) ==
    LET range == RangeOf(T, low, high)
    IN  IF range = 0
        THEN Standard_gen(T, rng)
        ELSE SampleLoop(T, low, range, SingleZone(T, range), rng)

\* Rng::gen_range(begin..=end)
gen_range(T, rng, begin, end) ==
    IF begin > end
    THEN Panic("cannot sample empty range")
    ELSE sample_single_inclusive(T, begin, end, rng)

\* Uniform::new_inclusive(begin, end); the assertion's message, which rand
\* writes with backquotes around low > high, is spelled without them here
Uniform_new_inclusive(T, low, high) ==
    IF low > high
    THEN Panic("Uniform::new_inclusive called with low > high")
    ELSE [kind |-> "ok", ty |-> T, low |-> low, range |-> RangeOf(T, low, high)]

\* uniform.sample(&mut rng)
Uniform_sample(u, rng) ==
    IF u.range > 0
    THEN SampleLoop(u.ty, u.low, u.range, UniformZone(u.range), rng)
    ELSE Standard_gen(u.ty, rng)

(***************************************************************************)
(* integers.rs                                                             *)
(***************************************************************************)
\* mutant: the half-open range begin..end in place of begin..=end
int_in_range_half_open(randomness, T, begin, end) ==
    IF begin >= end
    THEN Panic("cannot sample empty range")
    ELSE sample_single_inclusive(T, begin, end - 1, make_prng(randomness))

int_in_range(randomness, T, begin, end) ==
    gen_range(T, make_prng(randomness), begin, end)

\* mutant: the loop runs over 1..count
RECURSIVE PushSamples_from_one(_, _, _, _)
PushSamples_from_one(u, rng, out, left) ==
    IF left <= 1
    THEN [kind |-> "ok", value |-> out, rng |-> rng]
    ELSE LET s == Uniform_sample(u, rng)
         IN  PushSamples_from_one(u, s.rng, Append(out, s.value), left - 1)

\* for _ in 0..count { out.push(uniform.sample(&mut rng)); }
RECURSIVE PushSamples(_, _, _, _)
PushSamples(u, rng, out, left) ==
    IF left = 0
    THEN [kind |-> "ok", value |-> out, rng |-> rng]
    ELSE LET s == Uniform_sample(u, rng)
         IN  PushSamples(u, s.rng, Append(out, s.value), left - 1)

\* mutant: bounds given in the wrong order are swapped instead of refused
ints_in_range_swapped(randomness, T, count, begin, end) ==
    LET lo == IF begin <= end THEN begin ELSE end
        hi == IF begin <= end THEN end ELSE begin
    IN  PushSamples(Uniform_new_inclusive(T, lo, hi), make_prng(randomness), <<>>, count)

ints_in_range(randomness, T, count, begin, end) ==
    LET rng == make_prng(randomness)
        uniform == Uniform_new_inclusive(T, begin, end)
    IN  IF uniform.kind = "panic"
        THEN uniform
        ELSE PushSamples(uniform, rng, <<>>, count)

(***************************************************************************)
(* shuffle.rs and pick.rs                                                  *)
(***************************************************************************)
\* mutant: position i is overwritten, the element it held is lost
Swap_overwrite(d, i, j) == [d EXCEPT ![i + 1] = d[j + 1]]

\* data.swap(i, j), the indices counted from 0
Swap(d, i, j) == [d EXCEPT ![i + 1] = d[j + 1], ![j + 1] = d[i + 1]]

\* mutant: j is sampled from the whole vector at every step
RECURSIVE SwapLoop_naive(_, _, _, _, _)
SwapLoop_naive(rng, d, i, from, swaps) ==
    IF i < from
    THEN [kind |-> "ok", value |-> d, rng |-> rng, swaps |-> swaps]
    ELSE LET s == gen_range(USIZE, rng, 0, Len(d) - 1)
         IN  SwapLoop_naive(s.rng, Swap(d, i, s.value), i - 1, from,
                            Append(swaps, <<i, s.value>>))

\* mutant: j is sampled from 0..=i+1 where the vector has a position i+1
RECURSIVE SwapLoop_beyond(_, _, _, _, _)
SwapLoop_beyond(rng, d, i, from, swaps) ==
    IF i < from
    THEN [kind |-> "ok", value |-> d, rng |-> rng, swaps |-> swaps]
    ELSE LET s == gen_range(USIZE, rng, 0, IF i + 1 < Len(d) THEN i + 1 ELSE i)
         IN  SwapLoop_beyond(s.rng, Swap(d, i, s.value), i - 1, from,
                             Append(swaps, <<i, s.value>>))

\* for i in (from..data.len()).rev() { let j = rng.gen_range(0..=i); data.swap(i, j); }
\* swaps records the pairs <<i, j>> in the order the loop made them.
RECURSIVE SwapLoop(_, _, _, _, _)
SwapLoop(rng, d, i, from, swaps) ==
    IF i < from
    THEN [kind |-> "ok", value |-> d, rng |-> rng, swaps |-> swaps]
    ELSE LET s == gen_range(USIZE, rng, 0, i)
         IN  SwapLoop(s.rng, Swap(d, i, s.value), i - 1, from,
                      Append(swaps, <<i, s.value>>))

shuffle(randomness, d) ==
    SwapLoop(make_prng(randomness), d, Len(d) - 1, 1, <<>>)

\* data.split_off(at): the elements from index at on
split_off(d, at) == [k \in 1 .. (Len(d) - at) |-> d[at + k]]

PickPanic ==
    [kind |-> "panic",
     msg |-> "attempt to pick more elements than the input length",
     drawn |-> 0, swaps |-> <<>>]

\* mutant: the vector is split at n instead of len - n
pick_split_at_n(randomness, n, d) ==
    IF n > Len(d)
    THEN PickPanic
    ELSE LET r == SwapLoop(make_prng(randomness), d, Len(d) - 1, Len(d) - n, <<>>)
         IN  [r EXCEPT !.value = split_off(r.value, n)]

\* mutant: an n beyond the length is clamped to the length
pick_clamped(randomness, n, d) ==
    LET m == IF n > Len(d) THEN Len(d) ELSE n
        r == SwapLoop(make_prng(randomness), d, Len(d) - 1, Len(d) - m, <<>>)
    IN  [r EXCEPT !.value = split_off(r.value, Len(d) - m)]

\* mutant: n independent draws from the whole vector, nothing swapped away
RECURSIVE DrawWithReplacement(_, _, _, _)
DrawWithReplacement(rng, d, left, out) ==
    IF left = 0
    THEN [kind |-> "ok", value |-> out, rng |-> rng, swaps |-> <<>>]
    ELSE LET s == gen_range(USIZE, rng, 0, Len(d) - 1)
         IN  DrawWithReplacement(s.rng, d, left - 1, Append(out, d[s.value + 1]))

pick_with_replacement(randomness, n, d) ==
    IF n > Len(d)
    THEN PickPanic
    ELSE DrawWithReplacement(make_prng(randomness), d, n, <<>>)

\* mutant: the first n elements are returned in place of the last n
pick_head(randomness, n, d) ==
    IF n > Len(d)
    THEN PickPanic
    ELSE LET r == SwapLoop(make_prng(randomness), d, Len(d) - 1, Len(d) - n, <<>>)
         IN  [r EXCEPT !.value = [k \in 1 .. n |-> r.value[k]]]

pick(randomness, n, d) ==
    IF n > Len(d)
    THEN PickPanic
    ELSE LET r == SwapLoop(make_prng(randomness), d, Len(d) - 1, Len(d) - n, <<>>)
         IN  [r EXCEPT !.value = split_off(r.value, Len(d) - n)]

(***************************************************************************)
(* The calls, and the specification of the range sampler                   *)
(***************************************************************************)
NoResult == [kind |-> "none"]

InitSample ==
    /\ pc = "ready"
    /\ op \in {"int_in_range", "ints_in_range"}
    /\ Randomness \in Seeds
    /\ Ty \in Types
    /\ Begin \in Values(Ty)
    /\ End \in Values(Ty)
    /\ Count \in (IF op = "ints_in_range" THEN 0 .. MaxCount ELSE {0})
    /\ Data = <<>>
    /\ N = 0
    /\ result = NoResult
    /\ KeyHash = <<>>
    /\ providers = <<>>

IntInRange ==
    /\ pc = "ready"
    /\ op = "int_in_range"
    /\ result' = int_in_range(Randomness, Ty, Begin, End)
    /\ pc' = "done"
    /\ UNCHANGED <<args, KeyHash, providers>>

IntsInRange ==
    /\ pc = "ready"
    /\ op = "ints_in_range"
    /\ result' = ints_in_range(Randomness, Ty, Count, Begin, End)
    /\ pc' = "done"
    /\ UNCHANGED <<args, KeyHash, providers>>

NextSample == IntInRange \/ IntsInRange

SpecSample == InitSample /\ [][NextSample]_vars

(***************************************************************************)
(* The specification of shuffle and pick                                   *)
(***************************************************************************)
\* the element values a vector is filled with (two, so that elements repeat)
Elems == {1, 2}
\* the vector 1, 2, ..., k of k distinct elements
Iota(k) == [i \in 1 .. k |-> i]

Vectors ==
    UNION { [1 .. k -> Elems] : k \in 0 .. MaxLen } \cup { Iota(k) : k \in 0 .. MaxLen }

InitPermute ==
    /\ pc = "ready"
    /\ op \in {"shuffle", "pick"}
    /\ Randomness \in Seeds
    /\ Data \in Vectors
    /\ N \in (IF op = "pick" THEN 0 .. (MaxLen + 1) ELSE {0})
    /\ Ty = USIZE
    /\ Begin = 0
    /\ End = 0
    /\ Count = 0
    /\ result = NoResult
    /\ KeyHash = <<>>
    /\ providers = <<>>

Shuffle ==
    /\ pc = "ready"
    /\ op = "shuffle"
    /\ result' = shuffle(Randomness, Data)
    /\ pc' = "done"
    /\ UNCHANGED <<args, KeyHash, providers>>

Pick ==
    /\ pc = "ready"
    /\ op = "pick"
    /\ result' = pick(Randomness, N, Data)
    /\ pc' = "done"
    /\ UNCHANGED <<args, KeyHash, providers>>

NextPermute == Shuffle \/ Pick

SpecPermute == InitPermute /\ [][NextPermute]_vars

(***************************************************************************)
(* Claims about the range sampler (checked under SpecSample)               *)
(***************************************************************************)
Returned == pc = "done" /\ result.kind = "ok"
ValidRange == Begin <= End

\* the words the call consumed, in the order it drew them
DrawnWords(res) ==
    [k \in 1 .. res.rng.drawn |-> res.rng.stream[((k - 1) % Len(res.rng.stream)) + 1]]

\* C1: for every seed and every range with begin <= end, of any width and
\* signedness, negative bounds and [MIN, MAX] included, int_in_range returns
\* a value v with begin <= v <= end and every element of ints_in_range is
\* within the same bounds; with begin = end the result is that value.
C1_WithinBounds ==
    (pc = "done" /\ ValidRange) =>
        /\ result.kind = "ok"
        /\ op = "int_in_range" =>
              /\ Begin <= result.value /\ result.value <= End
              /\ Begin = End => result.value = Begin
        /\ op = "ints_in_range" =>
              \A k \in 1 .. Len(result.value) :
                  /\ Begin <= result.value[k] /\ result.value[k] <= End
                  /\ Begin = End => result.value[k] = Begin

\* a signed type sampled over its full width [MIN, MAX], both ends drawn
C1_Witness ==
    /\ Returned /\ op = "ints_in_range"
    /\ Ty.signed /\ Begin = MinOf(Ty) /\ End = MaxOf(Ty)
    /\ Count = 2 /\ result.value[1] = Begin /\ result.value[2] = End

\* C2: for every seed, count and valid range, ints_in_range returns exactly
\* count elements; with count = 0 the empty vector.
C2_ExactCount ==
    (pc = "done" /\ op = "ints_in_range" /\ ValidRange) =>
        /\ result.kind = "ok"
        /\ Len(result.value) = Count
        /\ Count = 0 => result.value = <<>>

C2_Witness ==
    /\ Returned /\ op = "ints_in_range" /\ Begin < End
    /\ Count = MaxCount /\ Len(result.value) = MaxCount
    /\ result.rng.drawn > Count

\* C3 as stated: with begin > end both int_in_range and ints_in_range panic
\* with 'cannot sample empty range'.
C3_SameMessage ==
    (pc = "done" /\ Begin > End) => result = Panic("cannot sample empty range")

\* C3 as amended: with begin > end, for every seed (and every count), both
\* functions panic and return no value, the bounds are not clamped, swapped
\* or wrapped; int_in_range panics in gen_range with 'cannot sample empty
\* range', ints_in_range in Uniform::new_inclusive with that constructor's
\* message.
C3_EmptyRangePanics ==
    (pc = "done" /\ Begin > End) =>
        /\ result.kind = "panic"
        /\ DOMAIN result = {"kind", "msg"}
        /\ op = "int_in_range" => result.msg = "cannot sample empty range"
        /\ op = "ints_in_range" =>
              result.msg = "Uniform::new_inclusive called with low > high"

C3_Witness ==
    /\ pc = "done" /\ op = "ints_in_range" /\ Count = 0
    /\ Begin > End /\ Begin < 0 /\ result.kind = "panic"

Prefix(s, k) == [i \in 1 .. k |-> s[i]]

\* C4: ints_in_range is count sequential single draws on one generator
\* state: its first element equals int_in_range on the same seed and range,
\* and the result for count k is a prefix of the result for count k + 1.
C4_FirstIsSingleDraw ==
    (pc = "done" /\ op = "ints_in_range" /\ ValidRange) =>
        /\ Count >= 1 =>
              result.value[1] = int_in_range(Randomness, Ty, Begin, End).value
        /\ result.value =
              Prefix(ints_in_range(Randomness, Ty, Count + 1, Begin, End).value, Count)

\* the raw words for which one turn of sample_single_inclusive returns x
SingleAccepted(T, low, high, x) ==
    LET range == RangeOf(T, low, high)
    IN  { v \in Word :
            IF range = 0
            THEN AsTy(T, v) = x
            ELSE Outcome(T, low, range, SingleZone(T, range), v)
                     = [accept |-> TRUE, value |-> x] }

\* the raw words for which one turn of Uniform::sample returns x
UniformAccepted(T, low, high, x) ==
    LET range == RangeOf(T, low, high)
    IN  { v \in Word :
            IF range = 0
            THEN AsTy(T, v) = x
            ELSE Outcome(T, low, range, UniformZone(range), v)
                     = [accept |-> TRUE, value |-> x] }

AcceptedOf(x) ==
    IF op = "int_in_range"
    THEN SingleAccepted(Ty, Begin, End, x)
    ELSE UniformAccepted(Ty, Begin, End, x)

\* C5: range sampling has no modulo bias: for every valid range every value
\* of [begin, end] is produced by the same, non-zero number of accepted raw
\* words, and every value returned comes from such a word, the words drawn
\* before it being rejected ones.
C5_NoModuloBias ==
    (pc = "done" /\ ValidRange) =>
        /\ \A x \in Begin .. End :
              /\ AcceptedOf(x) # {}
              /\ Cardinality(AcceptedOf(x)) = Cardinality(AcceptedOf(Begin))
        /\ op = "int_in_range" =>
              LET w == DrawnWords(result)
              IN  /\ Len(w) >= 1
                  /\ w[Len(w)] \in AcceptedOf(result.value)
                  /\ \A k \in 1 .. (Len(w) - 1) :
                        \A x \in Begin .. End : w[k] \notin AcceptedOf(x)
        /\ op = "ints_in_range" =>
              LET w == DrawnWords(result)
                  hits == { k \in 1 .. Len(w) :
                              \E x \in Begin .. End : w[k] \in AcceptedOf(x) }
              IN  /\ Cardinality(hits) = Count
                  /\ \A i \in 1 .. Count :
                        \E k \in hits :
                            /\ Cardinality({ j \in hits : j <= k }) = i
                            /\ w[k] \in AcceptedOf(result.value[i])

\* a range whose width does not divide the word space, with a rejected draw
C5_Witness ==
    /\ Returned /\ op = "int_in_range"
    /\ End - Begin + 1 = 3
    /\ result.rng.drawn = 2
    /\ result.value = End

(***************************************************************************)
(* Claims about shuffle and pick (checked under SpecPermute)               *)
(***************************************************************************)
\* how often e occurs in the vector d
Occurrences(d, e) == Cardinality({ k \in 1 .. Len(d) : d[k] = e })

SameMultiset(d1, d2) ==
    /\ Len(d1) = Len(d2)
    /\ \A k \in 1 .. Len(d1) : Occurrences(d1, d1[k]) = Occurrences(d2, d1[k])

\* C6: for every seed and input vector, shuffle returns a permutation of
\* the input multiset (same length, same elements, same multiplicities);
\* an input of length 0 or 1 is returned as it is.
C6_ShuffleIsPermutation ==
    (pc = "done" /\ op = "shuffle") =>
        /\ result.kind = "ok"
        /\ SameMultiset(Data, result.value)
        /\ Len(Data) <= 1 => result.value = Data

\* a vector with a repeated element whose order the shuffle changed
C6_Witness ==
    /\ Returned /\ op = "shuffle"
    /\ Len(Data) = 3 /\ Data[1] = Data[2] /\ Data[2] # Data[3]
    /\ result.value # Data

\* The Fisher-Yates loop of shuffle run on given indices: js[1] is the
\* index sampled at i = len - 1, js[2] the one at i = len - 2, ...
RECURSIVE ApplySwaps(_, _, _)
ApplySwaps(d, i, js) ==
    IF js = <<>> THEN d ELSE ApplySwaps(Swap(d, i, Head(js)), i - 1, Tail(js))

\* the vectors of indices the loop can sample on a vector of len elements:
\* j_i in [0, i] for i = len - 1 down to 1
IndexVectors(len) ==
    IF len <= 1
    THEN {<<>>}
    ELSE { js \in [1 .. (len - 1) -> 0 .. (len - 1)] :
             \A k \in 1 .. (len - 1) : js[k] <= len - k }

RECURSIVE Factorial(_)
Factorial(k) == IF k <= 1 THEN 1 ELSE k * Factorial(k - 1)

Distinct(d) == \A a, b \in 1 .. Len(d) : d[a] = d[b] => a = b

SampledIndices(res) == [k \in 1 .. Len(res.swaps) |-> res.swaps[k][2]]

\* C7: on n distinct elements the map from the vector of sampled indices
\* (j_i in [0, i], i = n - 1 down to 1) to the output of shuffle is a
\* bijection onto the n! permutations: the output is the loop run on the
\* indices sampled, no other index vector gives it, and the index vectors
\* give n! different outputs, each a permutation of the input.
C7_FisherYatesBijection ==
    (pc = "done" /\ op = "shuffle" /\ Distinct(Data)) =>
        LET len == Len(Data)
            js == SampledIndices(result)
            outputs == { ApplySwaps(Data, len - 1, v) : v \in IndexVectors(len) }
        IN  /\ js \in IndexVectors(len)
            /\ result.value = ApplySwaps(Data, len - 1, js)
            /\ \A v \in IndexVectors(len) :
                  ApplySwaps(Data, len - 1, v) = result.value => v = js
            /\ Cardinality(IndexVectors(len)) = Factorial(len)
            /\ Cardinality(outputs) = Factorial(len)
            /\ \A o \in outputs : SameMultiset(Data, o)

\* three distinct elements come out reversed
C7_Witness ==
    /\ Returned /\ op = "shuffle"
    /\ Data = Iota(3) /\ result.value = <<3, 2, 1>>

\* C8: for every seed and every vector (the empty and the one-element
\* vector included), pick(seed, len(data), data) returns the vector
\* shuffle(seed, data) returns.
C8_PickAllIsShuffle ==
    (pc = "done" /\ op = "pick" /\ N = Len(Data)) =>
        /\ result.kind = "ok"
        /\ result.value = shuffle(Randomness, Data).value

\* a full pick that reorders its input and draws once more than shuffle
C8_Witness ==
    /\ Returned /\ op = "pick" /\ N = Len(Data) /\ N = 3
    /\ result.value # Data
    /\ result.rng.drawn > shuffle(Randomness, Data).rng.drawn

\* C9: for every seed, pick with n > len(data) panics with 'attempt to pick
\* more elements than the input length' before any generator draw or swap,
\* and returns no vector.
C9_PickTooManyPanics ==
    (pc = "done" /\ op = "pick" /\ N > Len(Data)) =>
        /\ result.kind = "panic"
        /\ result.msg = "attempt to pick more elements than the input length"
        /\ result.drawn = 0 /\ result.swaps = <<>>
        /\ "value" \notin DOMAIN result

C9_Witness ==
    /\ pc = "done" /\ op = "pick"
    /\ Len(Data) = 3 /\ N = 4 /\ result.kind = "panic"

\* the positions (from 0) of the input that pick returns, in order: pick
\* run on the vector of positions
PickedPositions == pick(Randomness, N, [k \in 1 .. Len(Data) |-> k - 1]).value

\* C10: for every seed and n <= len(data), pick returns exactly n elements
\* taken from n distinct positions of the input (a sub-multiset of the
\* input, no position used twice); with n = 0 the empty vector.
C10_PickWithoutReplacement ==
    (pc = "done" /\ op = "pick" /\ N <= Len(Data)) =>
        /\ result.kind = "ok"
        /\ Len(result.value) = N
        /\ N = 0 => result.value = <<>>
        /\ Len(PickedPositions) = N
        /\ Distinct(PickedPositions)
        /\ \A k \in 1 .. N :
              /\ PickedPositions[k] \in 0 .. (Len(Data) - 1)
              /\ result.value[k] = Data[PickedPositions[k] + 1]

\* two of three picked, the same element value from two positions
C10_Witness ==
    /\ Returned /\ op = "pick"
    /\ Len(Data) = 3 /\ N = 2
    /\ result.value[1] = result.value[2]
    /\ Data[3] # result.value[1]

(***************************************************************************)
(* select_from_weighted.rs                                                 *)
(***************************************************************************)
\* the type of a weight and of the draw r (u32, scaled)
U32 == [bits |-> WideBits, signed |-> FALSE]

\* Err(String::from(msg))
Err(msg) == [kind |-> "err", msg |-> msg]

\* an element of the list is the pair (item, weight): element.0 and element.1
ItemOf(element) == element[1]
WeightOf(element) == element[2]

\* mutant: the weights are summed without the test for a zero weight
RECURSIVE SumWeights_zero_allowed(_, _, _)
SumWeights_zero_allowed(list, k, total_weight) ==
    IF k > Len(list)
    THEN [kind |-> "ok", value |-> total_weight]
    ELSE IF total_weight + WeightOf(list[k]) > MaxOf(U32)
         THEN Err("Total weight is greater than maximum value of u32")
         ELSE SumWeights_zero_allowed(list, k + 1, total_weight + WeightOf(list[k]))

\* mutant: wrapping_add in place of checked_add
RECURSIVE SumWeights_wrapping(_, _, _)
SumWeights_wrapping(list, k, total_weight) ==
    IF k > Len(list)
    THEN [kind |-> "ok", value |-> total_weight]
    ELSE IF WeightOf(list[k]) = 0
         THEN Err("All element weights should be >= 1")
         ELSE SumWeights_wrapping(list, k + 1,
                                  AsTy(U32, total_weight + WeightOf(list[k])))

\* mutant: the whole list is searched for a zero weight before any weight
\* is added
RECURSIVE SumWeights_zero_first(_, _, _)
SumWeights_zero_first(list, k, total_weight) ==
    IF \E z \in k .. Len(list) : WeightOf(list[z]) = 0
    THEN Err("All element weights should be >= 1")
    ELSE IF k > Len(list)
         THEN [kind |-> "ok", value |-> total_weight]
         ELSE IF total_weight + WeightOf(list[k]) > MaxOf(U32)
              THEN Err("Total weight is greater than maximum value of u32")
              ELSE SumWeights_zero_first(list, k + 1, total_weight + WeightOf(list[k]))

\* for (_, weight) in list { if *weight == 0 { return Err(..) }
\*     total_weight = total_weight.checked_add(*weight).ok_or_else(..)?; }
\* from the element at position k on (positions counted from 1)
RECURSIVE SumWeights(_, _, _)
SumWeights(list, k, total_weight) ==
    IF k > Len(list)
    THEN [kind |-> "ok", value |-> total_weight]
    ELSE IF WeightOf(list[k]) = 0
         THEN Err("All element weights should be >= 1")
         ELSE IF total_weight + WeightOf(list[k]) > MaxOf(U32)
              THEN Err("Total weight is greater than maximum value of u32")
              ELSE SumWeights(list, k + 1, total_weight + WeightOf(list[k]))

\* mutant: the walk compares r < weight_sum
RECURSIVE Walk_strict(_, _, _, _, _)
Walk_strict(list, k, r, weight_sum, overflowed) ==
    IF k > Len(list)
    THEN [kind |-> "panic", msg |-> "No element selected",
          weight_sum |-> weight_sum, overflowed |-> overflowed]
    ELSE LET sum == weight_sum + WeightOf(list[k])
         IN  IF r < AsTy(U32, sum)
             THEN [kind |-> "ok", value |-> ItemOf(list[k]), index |-> k,
                   weight_sum |-> AsTy(U32, sum),
                   overflowed |-> overflowed \/ sum > MaxOf(U32)]
             ELSE Walk_strict(list, k + 1, r, AsTy(U32, sum),
                              overflowed \/ sum > MaxOf(U32))

\* for element in list { weight_sum += element.1;
\*     if r <= weight_sum { return Ok(element.0.clone()); } }
\* panic!("No element selected")
\* weight_sum is a u32: an addition beyond u32::MAX wraps, or panics in a
\* build with overflow checks; overflowed records that one took place.
RECURSIVE Walk(_, _, _, _, _)
Walk(list, k, r, weight_sum, overflowed) ==
    IF k > Len(list)
    THEN [kind |-> "panic", msg |-> "No element selected",
          weight_sum |-> weight_sum, overflowed |-> overflowed]
    ELSE LET sum == weight_sum + WeightOf(list[k])
         IN  IF r <= AsTy(U32, sum)
             THEN [kind |-> "ok", value |-> ItemOf(list[k]), index |-> k,
                   weight_sum |-> AsTy(U32, sum),
                   overflowed |-> overflowed \/ sum > MaxOf(U32)]
             ELSE Walk(list, k + 1, r, AsTy(U32, sum),
                       overflowed \/ sum > MaxOf(U32))

\* mutant: r is drawn from 0 ..= total_weight - 1
select_from_weighted_from_zero(randomness, list) ==
    IF Len(list) = 0
    THEN Err("List must not be empty")
    ELSE LET total == SumWeights(list, 1, 0)
         IN  IF total.kind = "err"
             THEN total
             ELSE LET d == int_in_range(randomness, U32, 0, total.value - 1)
                      w == Walk(list, 1, d.value, 0, FALSE)
                  IN  [kind |-> w.kind, walk |-> w, r |-> d.value, rng |-> d.rng]

\* The result of a call that got as far as the walk carries the draw r, the
\* generator after the draw and what the walk returned.
select_from_weighted(randomness, list) ==
    IF Len(list) = 0
    THEN Err("List must not be empty")
    ELSE LET total == SumWeights(list, 1, 0)
         IN  IF total.kind = "err"
             THEN total
             ELSE IF ~(total.value > 0)
                  THEN Panic("we know we have a non-empty list of non-zero elements")
                  ELSE LET d == int_in_range(randomness, U32, 1, total.value)
                       IN  IF d.kind = "panic"
                           THEN d
                           ELSE LET w == Walk(list, 1, d.value, 0, FALSE)
                                IN  [kind |-> w.kind, walk |-> w,
                                     r |-> d.value, rng |-> d.rng]

(***************************************************************************)
(* pick.rs: pick_one_from_weighted_list                                    *)
(***************************************************************************)
\* let mut total_weight: u32 = 0;
\* for (_, weight) in list { if *weight == 0 { return Err(..) }
\*     total_weight = total_weight.checked_add(*weight).ok_or_else(..)?; }
RECURSIVE TotalWeight(_, _, _)
TotalWeight(list, k, total_weight) ==
    IF k > Len(list)
    THEN [kind |-> "ok", value |-> total_weight]
    ELSE LET weight == list[k][2]
         IN  IF weight = 0
             THEN Err("All element weights should be >= 1")
             ELSE IF total_weight + weight > MaxOf(U32)
                  THEN Err("Total weight is greater than maximum value of u32")
                  ELSE TotalWeight(list, k + 1, total_weight + weight)

\* for element in list { weight_sum += element.1;
\*     if r <= weight_sum { return Ok(element.0.clone()); } }
\* panic!("No element selected")
RECURSIVE PickAtWeight(_, _, _, _)
PickAtWeight(list, k, r, weight_sum) ==
    IF k > Len(list)
    THEN Panic("No element selected")
    ELSE IF r <= AsTy(U32, weight_sum + list[k][2])
         THEN [kind |-> "ok", value |-> list[k][1]]
         ELSE PickAtWeight(list, k + 1, r, AsTy(U32, weight_sum + list[k][2]))

\* mutant: the element is looked up at r - 1
pick_one_from_weighted_list_from_zero(randomness, list) ==
    IF Len(list) = 0
    THEN Err("List must not be empty")
    ELSE LET total_weight == TotalWeight(list, 1, 0)
         IN  IF total_weight.kind = "err"
             THEN total_weight
             ELSE LET r == int_in_range(randomness, U32, 1, total_weight.value)
                  IN  PickAtWeight(list, 1, r.value - 1, 0)

pick_one_from_weighted_list(randomness, list) ==
    IF Len(list) = 0
    THEN Err("List must not be empty")
    ELSE LET total_weight == TotalWeight(list, 1, 0)
         IN  IF total_weight.kind = "err"
             THEN total_weight
             ELSE IF ~(total_weight.value > 0)
                  THEN Panic("we know we have a non-empty list of non-zero elements")
                  ELSE LET r == int_in_range(randomness, U32, 1, total_weight.value)
                       IN  IF r.kind = "panic"
                           THEN r
                           ELSE PickAtWeight(list, 1, r.value, 0)

(***************************************************************************)
(* The specification of weighted selection                                 *)
(***************************************************************************)
\* the weights an element is given: none, the least, one in between, u32::MAX
Weights == {0, 1, MaxOf(U32) \div 2, MaxOf(U32)}

\* the lists of up to MaxLen elements; the item of an element is its position
WeightedLists ==
    UNION { { [i \in 1 .. k |-> <<i, ws[i]>>] : ws \in [1 .. k -> Weights] } :
            k \in 0 .. MaxLen }

InitWeighted ==
    /\ pc = "ready"
    /\ op \in {"select_from_weighted", "pick_one_from_weighted_list"}
    /\ Randomness \in Seeds
    /\ Data \in WeightedLists
    /\ Ty = U32
    /\ Begin = 0
    /\ End = 0
    /\ Count = 0
    /\ N = 0
    /\ result = NoResult
    /\ KeyHash = <<>>
    /\ providers = <<>>

SelectFromWeighted ==
    /\ pc = "ready"
    /\ op = "select_from_weighted"
    /\ result' = select_from_weighted(Randomness, Data)
    /\ pc' = "done"
    /\ UNCHANGED <<args, KeyHash, providers>>

PickOneFromWeightedList ==
    /\ pc = "ready"
    /\ op = "pick_one_from_weighted_list"
    /\ result' = pick_one_from_weighted_list(Randomness, Data)
    /\ pc' = "done"
    /\ UNCHANGED <<args, KeyHash, providers>>

NextWeighted == SelectFromWeighted \/ PickOneFromWeightedList

SpecWeighted == InitWeighted /\ [][NextWeighted]_vars

(***************************************************************************)
(* Claims about weighted selection (checked under SpecWeighted)            *)
(***************************************************************************)
\* the sum of the weights of the first k elements, as a number
RECURSIVE CumulativeWeight(_, _)
CumulativeWeight(list, k) ==
    IF k = 0 THEN 0 ELSE CumulativeWeight(list, k - 1) + WeightOf(list[k])

TotalOf(list) == CumulativeWeight(list, Len(list))

\* a WeightedList: not empty, every weight >= 1, the sum fits a u32
Validated(list) ==
    /\ Len(list) > 0
    /\ \A k \in 1 .. Len(list) : WeightOf(list[k]) >= 1
    /\ TotalOf(list) <= MaxOf(U32)

ValidationErrors ==
    {"List must not be empty",
     "All element weights should be >= 1",
     "Total weight is greater than maximum value of u32"}

\* C11: select_from_weighted returns Ok exactly when the list is non-empty,
\* every weight is >= 1 and the sum of the weights is <= u32::MAX (a sum equal
\* to u32::MAX is accepted); otherwise it returns an Err with one of the three
\* messages; Ok or Err is decided by the list alone, whatever the seed.
C11_OkIffValidList ==
    (pc = "done" /\ op = "select_from_weighted") =>
        /\ result.kind = "ok" <=> Validated(Data)
        /\ ~Validated(Data) =>
              /\ result.kind = "err"
              /\ result.msg \in ValidationErrors
        /\ Len(Data) = 0 => result = Err("List must not be empty")

\* a list of several elements whose weights sum to u32::MAX is accepted
C11_Witness ==
    /\ pc = "done" /\ op = "select_from_weighted"
    /\ Len(Data) > 1 /\ TotalOf(Data) = MaxOf(U32)
    /\ result.kind = "ok"

\* C12: for a validated list of total weight W the call draws
\* r = int_in_range(seed, 1, W) and returns the first element, in list order,
\* whose cumulative weight is >= r.
C12_FirstCumulativeAtLeastR ==
    (pc = "done" /\ op = "select_from_weighted" /\ Validated(Data)) =>
        /\ result.kind = "ok"
        /\ result.r = int_in_range(Randomness, U32, 1, TotalOf(Data)).value
        /\ 1 <= result.r /\ result.r <= TotalOf(Data)
        /\ result.walk.index \in 1 .. Len(Data)
        /\ result.walk.value = ItemOf(Data[result.walk.index])
        /\ CumulativeWeight(Data, result.walk.index) >= result.r
        /\ \A j \in 1 .. (result.walk.index - 1) :
              CumulativeWeight(Data, j) < result.r

\* the draw falls on the boundary of the second of three elements
C12_Witness ==
    /\ pc = "done" /\ op = "select_from_weighted" /\ Validated(Data)
    /\ Len(Data) = 3
    /\ result.kind = "ok"
    /\ result.walk.index = 2
    /\ result.r = CumulativeWeight(Data, 2)
    /\ result.rng.drawn > 1

\* the draws r for which the walk over the list returns the element at index k
DrawsReturning(list, k) ==
    { r \in 1 .. TotalOf(list) :
        LET w == Walk(list, 1, r, 0, FALSE)
        IN  w.kind = "ok" /\ w.index = k }

\* C13: for every validated list and every index k, the number of draw values
\* r in [1, W] for which the walk returns the element at index k is weight_k.
C13_DrawsPerElementIsWeight ==
    (pc = "done" /\ op = "select_from_weighted" /\ Validated(Data)) =>
        /\ \A k \in 1 .. Len(Data) :
              Cardinality(DrawsReturning(Data, k)) = WeightOf(Data[k])
        /\ result.kind = "ok"
        /\ result.r \in DrawsReturning(Data, result.walk.index)

\* three elements of unequal weights, the heaviest returned
C13_Witness ==
    /\ pc = "done" /\ op = "select_from_weighted" /\ Validated(Data)
    /\ Len(Data) = 3
    /\ WeightOf(Data[1]) < WeightOf(Data[2])
    /\ result.kind = "ok"
    /\ result.walk.index = 2
    /\ Cardinality(DrawsReturning(Data, 2)) > 1

\* C14: once the validation has passed the walk never aborts, for any seed:
\* weight_sum never overflows u32 (it stays <= W) and an element is returned
\* before the end of the list; the panic 'No element selected' is not reached.
C14_WalkNeverAborts ==
    (pc = "done" /\ op = "select_from_weighted" /\ result.kind # "err") =>
        /\ result.kind = "ok"
        /\ ~result.walk.overflowed
        /\ result.walk.weight_sum <= TotalOf(Data)
        /\ TotalOf(Data) <= MaxOf(U32)
        /\ result.walk.index <= Len(Data)

\* the draw is W itself: the walk returns at the last element, weight_sum = W
C14_Witness ==
    /\ pc = "done" /\ op = "select_from_weighted"
    /\ result.kind = "ok"
    /\ Len(Data) = MaxLen
    /\ result.r = TotalOf(Data)
    /\ result.walk.index = Len(Data)
    /\ result.walk.weight_sum = MaxOf(U32)

(***************************************************************************)
(* sub_randomness.rs                                                       *)
(***************************************************************************)
\* b"_^default^_"
DefaultKey == "_^default^_"

\* the keys handed to sub_randomness_with_key
Keys == {DefaultKey, "A", "B"}

\* xxh3_128(key).to_be_bytes() covers the first 16 of the 32 bytes of the
\* randomness: half of its words
HashWords == StreamLen \div 2

\* The values xxh3_128 takes.  They are fewer than the keys: the hash maps
\* byte strings of any length to 128 bits.
HashedKeys == { [pos \in 1 .. HashWords |-> w] : w \in {1, LargeModulus - 1} }

\* xxh3_128(key.as_ref()).to_be_bytes()
xxh3_128(key) == KeyHash[key]

\* mutant: the hash is or-ed into the randomness
RECURSIVE BitXor_or(_, _)
BitXor_or(a, b) ==
    IF a = 0 /\ b = 0
    THEN 0
    ELSE (IF a % 2 = 1 \/ b % 2 = 1 THEN 1 ELSE 0) + 2 * BitXor_or(a \div 2, b \div 2)

\* a ^ b
RECURSIVE BitXor(_, _)
BitXor(a, b) ==
    IF a = 0 /\ b = 0
    THEN 0
    ELSE ((a + b) % 2) + 2 * BitXor(a \div 2, b \div 2)

\* mutant: the hash is repeated over the whole width of the randomness
MixKey_whole(randomness, hashed_key) ==
    [pos \in 1 .. Len(randomness) |->
        BitXor(randomness[pos], hashed_key[((pos - 1) % Len(hashed_key)) + 1])]

\* for (pos, byte) in hashed_key.iter().enumerate() { randomness[pos] ^= byte; }
MixKey(randomness, hashed_key) ==
    [pos \in 1 .. Len(randomness) |->
        IF pos <= Len(hashed_key)
        THEN BitXor(randomness[pos], hashed_key[pos])
        ELSE randomness[pos]]

\* mutant: every provider is handed the generator of the first one, where it
\* stands, once that one exists
sub_randomness_with_key_shared(randomness, key) ==
    IF providers[1].built
    THEN providers[1].self
    ELSE [rng |-> make_prng(MixKey(randomness, xxh3_128(key)))]

\* Box::new(SubRandomnessProvider { rng })
sub_randomness_with_key(randomness, key) ==
    [rng |-> make_prng(MixKey(randomness, xxh3_128(key)))]

\* mutant: the generator is seeded with the randomness as it is
sub_randomness_unkeyed(randomness) == [rng |-> make_prng(randomness)]

sub_randomness(randomness) == sub_randomness_with_key(randomness, DefaultKey)

\* self.rng.fill_bytes(&mut out): the next words of the generator, as many as
\* a randomness holds
RECURSIVE fill_bytes(_, _, _)
fill_bytes(rng, out, left) ==
    IF left = 0
    THEN [value |-> out, rng |-> rng]
    ELSE fill_bytes(Advance(rng), Append(out, NextWord(rng)), left - 1)

\* mutant: the chunk is read but the generator of the provider is left where
\* it was
provide_repeating(self) ==
    [value |-> fill_bytes(self.rng, <<>>, StreamLen).value, self |-> self]

\* SubRandomnessProvider::provide(&mut self): the value returned and the
\* provider after the call
provide(self) ==
    LET filled == fill_bytes(self.rng, <<>>, StreamLen)
    IN  [value |-> filled.value, self |-> [rng |-> filled.rng]]

\* Iterator::next(&mut self): Some(self.provide())
next(self) ==
    LET provided == provide(self)
    IN  [some |-> TRUE, value |-> provided.value, self |-> provided.self]

(***************************************************************************)
(* The specification of the sub-randomness providers: two providers over   *)
(* one randomness, each built, rebuilt and pulled from in any order        *)
(***************************************************************************)
\* most values pulled from one provider before it is built anew
MaxProvided == 2

ProviderIds == {1, 2}

NotBuilt == [built |-> FALSE]

\* A provider just returned by constructor ctor called with key.  outs are
\* the values it has returned, nexts how many of them next() returned, ended
\* whether next() has returned None.
Built(ctor, key, self) ==
    [built |-> TRUE, ctor |-> ctor, key |-> key, self |-> self,
     outs |-> <<>>, nexts |-> 0, ended |-> FALSE]

\* the randomness the providers are built over: the words of a seed drawn
\* from the least, the next and the greatest word
ProviderSeeds == [1 .. StreamLen -> {0, 1, LargeModulus - 1}]

InitProviders ==
    /\ pc = "ready"
    /\ op = "sub_randomness"
    /\ Randomness \in ProviderSeeds
    /\ KeyHash \in [Keys -> HashedKeys]
    /\ providers = [i \in ProviderIds |-> NotBuilt]
    /\ Ty = U32
    /\ Begin = 0
    /\ End = 0
    /\ Count = 0
    /\ Data = <<>>
    /\ N = 0
    /\ result = NoResult

\* let mut provider = sub_randomness_with_key(randomness, key);
SubRandomnessWithKey(i, key) ==
    /\ providers' = [providers EXCEPT ![i] =
           Built("sub_randomness_with_key", key,
                 sub_randomness_with_key(Randomness, key))]
    /\ UNCHANGED <<pc, args, result, KeyHash>>

\* let mut provider = sub_randomness(randomness);
SubRandomness(i) ==
    /\ providers' = [providers EXCEPT ![i] =
           Built("sub_randomness", DefaultKey, sub_randomness(Randomness))]
    /\ UNCHANGED <<pc, args, result, KeyHash>>

\* mutant: one generator behind every provider: the value comes from the
\* generator of the first provider, which the call advances
Provide_shared(i) ==
    /\ providers[i].built
    /\ providers[1].built
    /\ ~providers[i].ended
    /\ Len(providers[i].outs) < MaxProvided
    /\ LET provided == provide(providers[1].self)
       IN  providers' = [j \in ProviderIds |->
               IF j = i
               THEN [providers[j] EXCEPT !.self = provided.self,
                                         !.outs = Append(@, provided.value)]
               ELSE IF j = 1
                    THEN [providers[j] EXCEPT !.self = provided.self]
                    ELSE providers[j]]
    /\ UNCHANGED <<pc, args, result, KeyHash>>

\* provider.provide()
Provide(i) ==
    /\ providers[i].built
    /\ ~providers[i].ended
    /\ Len(providers[i].outs) < MaxProvided
    /\ LET provided == provide(providers[i].self)
       IN  providers' = [providers EXCEPT
               ![i].self = provided.self,
               ![i].outs = Append(@, provided.value)]
    /\ UNCHANGED <<pc, args, result, KeyHash>>

\* provider.next(): a Some is unwrapped, a None ends the iteration
IteratorNext(i) ==
    /\ providers[i].built
    /\ ~providers[i].ended
    /\ Len(providers[i].outs) < MaxProvided
    /\ LET item == next(providers[i].self)
       IN  providers' = [providers EXCEPT
               ![i].self = item.self,
               ![i].outs = IF item.some THEN Append(@, item.value) ELSE @,
               ![i].nexts = IF item.some THEN @ + 1 ELSE @,
               ![i].ended = ~item.some]
    /\ UNCHANGED <<pc, args, result, KeyHash>>

NextProviders ==
    \E i \in ProviderIds :
        \/ SubRandomness(i)
        \/ \E key \in Keys : SubRandomnessWithKey(i, key)
        \/ Provide(i)
        \/ IteratorNext(i)

SpecProviders == InitProviders /\ [][NextProviders]_vars

(***************************************************************************)
(* Claims about the sub-randomness providers (checked under SpecProviders) *)
(***************************************************************************)
\* built by sub_randomness_with_key, resp. by sub_randomness
WithKey(i) == providers[i].built /\ providers[i].ctor = "sub_randomness_with_key"
Keyless(i) == providers[i].built /\ providers[i].ctor = "sub_randomness"

\* the positions of the stream both providers have returned
CommonPositions(i, j) ==
    1 .. (IF Len(providers[i].outs) <= Len(providers[j].outs)
          THEN Len(providers[i].outs)
          ELSE Len(providers[j].outs))

SameAtCommonPositions(i, j) ==
    \A pos \in CommonPositions(i, j) : providers[i].outs[pos] = providers[j].outs[pos]

\* the number of values the generator of the provider is past
PositionOf(i) == providers[i].self.rng.drawn \div StreamLen

\* C15: two providers built by sub_randomness_with_key from the same
\* (seed, key) return the same value at every position of the stream, however
\* far either had been advanced when the other was built; a provider built
\* anew stands at position 0.
C15_SameSeedAndKeySameStream ==
    /\ \A i, j \in ProviderIds :
          (WithKey(i) /\ WithKey(j) /\ providers[i].key = providers[j].key) =>
              SameAtCommonPositions(i, j)
    /\ \A i \in ProviderIds :
          WithKey(i) =>
              /\ PositionOf(i) = Len(providers[i].outs)
              /\ providers[i].self.rng.drawn = StreamLen * Len(providers[i].outs)

\* one provider has returned every value, the other, of the same key, stands
\* behind it and has returned the first value, not the one the former is at
C15_Witness ==
    /\ WithKey(1) /\ WithKey(2) /\ providers[1].key = providers[2].key
    /\ Len(providers[1].outs) = MaxProvided
    /\ Len(providers[2].outs) = 1
    /\ providers[2].outs[1] = providers[1].outs[1]
    /\ providers[2].outs[1] # providers[1].outs[MaxProvided]

\* C16: for every seed sub_randomness(seed) yields at every position the same
\* value as sub_randomness_with_key(seed, "_^default^_").
C16_DefaultKeyedVariant ==
    \A i, j \in ProviderIds :
        (Keyless(i) /\ WithKey(j) /\ providers[j].key = DefaultKey) =>
            /\ SameAtCommonPositions(i, j)
            /\ Len(providers[i].outs) = Len(providers[j].outs) =>
                  providers[i].self = providers[j].self

C16_Witness ==
    /\ Keyless(1) /\ WithKey(2) /\ providers[2].key = DefaultKey
    /\ Len(providers[1].outs) = MaxProvided
    /\ providers[2].outs = providers[1].outs
    /\ providers[1].outs[1] # Randomness

SeededWith(i) == [pos \in 1 .. StreamLen |-> providers[i].self.rng.stream[pos]]

ChunkAt(stream, pos) ==
    [k \in 1 .. StreamLen |->
        stream[(((pos - 1) * StreamLen + k - 1) % Len(stream)) + 1]]

\* C18: next() never returns None; every provide() or next() returns the next
\* chunk of the generator output and advances the state by one chunk; any
\* interleaving of provide() and next() on one provider yields the values
\* that provide() alone yields.
C18_OneChunkPerCall ==
    \A i \in ProviderIds :
        providers[i].built =>
            /\ ~providers[i].ended
            /\ providers[i].self.rng.drawn = StreamLen * Len(providers[i].outs)
            /\ \A pos \in 1 .. Len(providers[i].outs) :
                  providers[i].outs[pos] = ChunkAt(providers[i].self.rng.stream, pos)
            /\ NextWord(providers[i].self.rng) =
                  ChunkAt(providers[i].self.rng.stream, Len(providers[i].outs) + 1)[1]

\* provide() and next() both called on one provider, the values different
C18_Witness ==
    /\ providers[1].built
    /\ Len(providers[1].outs) = MaxProvided
    /\ providers[1].nexts > 0 /\ providers[1].nexts < MaxProvided
    /\ providers[1].outs[1] # providers[1].outs[MaxProvided]

(***************************************************************************)
(* dice.rs                                                                 *)
(***************************************************************************)
\* the type roll_dice returns (u8, scaled)
U8 == [bits |-> NarrowBits, signed |-> FALSE]

\* The faces of the die (6), scaled to the width of u8: like 6 among the
\* 32-bit words, the number is no power of two and does not divide the number
\* of words, so that the sampler rejects some of them.
Faces == 3

\* mutant: the faces are counted from 0
roll_dice_from_zero(randomness) == int_in_range(randomness, U8, 0, Faces - 1)

\* int_in_range(randomness, 1..=6)
roll_dice(randomness) == int_in_range(randomness, U8, 1, Faces)

(***************************************************************************)
(* coinflip.rs                                                             *)
(***************************************************************************)
\* enum Side { Heads = 0, Tails = 1 }
SideOf(discriminant) == IF discriminant = 0 THEN "Heads" ELSE "Tails"

\* if randomness[0] % 2 == 0 { Side::Heads } else { Side::Tails }
\* randomness[0] is the first byte of the randomness: the low-order byte of
\* its first word.
coinflip(randomness) ==
    [kind |-> "ok",
     value |-> IF randomness[1] % 2 = 0 THEN SideOf(0) ELSE SideOf(1)]

(***************************************************************************)
(* The specification of the die and the coin                               *)
(***************************************************************************)
InitDice ==
    /\ pc = "ready"
    /\ op \in {"roll_dice", "coinflip"}
    /\ Randomness \in Seeds
    /\ Ty = U8
    /\ Begin = 0
    /\ End = 0
    /\ Count = 0
    /\ Data = <<>>
    /\ N = 0
    /\ result = NoResult
    /\ KeyHash = <<>>
    /\ providers = <<>>

RollDice ==
    /\ pc = "ready"
    /\ op = "roll_dice"
    /\ result' = roll_dice(Randomness)
    /\ pc' = "done"
    /\ UNCHANGED <<args, KeyHash, providers>>

Coinflip ==
    /\ pc = "ready"
    /\ op = "coinflip"
    /\ result' = coinflip(Randomness)
    /\ pc' = "done"
    /\ UNCHANGED <<args, KeyHash, providers>>

NextDice == RollDice \/ Coinflip

SpecDice == InitDice /\ [][NextDice]_vars

(***************************************************************************)
(* Claims about the die (checked under SpecDice)                           *)
(***************************************************************************)
\* C20: for every seed roll_dice returns a number from 1 to the number of
\* faces, both included, and it is the single draw of the range sampler,
\* int_in_range(seed, 1, faces), on the same seed.
C20_DiceIsSingleDraw ==
    (pc = "done" /\ op = "roll_dice") =>
        /\ result.kind = "ok"
        /\ result.value \in 1 .. Faces
        /\ result.value = int_in_range(Randomness, U8, 1, Faces).value
        /\ result.value =
              sample_single_inclusive(U8, 1, Faces, make_prng(Randomness)).value

\* the highest face, drawn after a word the sampler rejected
C20_Witness ==
    /\ pc = "done" /\ op = "roll_dice"
    /\ result.kind = "ok"
    /\ result.value = Faces
    /\ result.rng.drawn > 1

(***************************************************************************)
(* Claims about the coin (checked under SpecDice)                          *)
(***************************************************************************)
\* C21 as stated: for every seed the result of coinflip is the mapping
\* 0 -> Heads, 1 -> Tails of one draw of the range sampler on that seed (a
\* draw from [0, 1], at some integer type), and it is one of Heads and Tails.
C21_CoinflipIsSamplerDraw ==
    (pc = "done" /\ op = "coinflip") =>
        /\ result.value \in {"Heads", "Tails"}
        /\ \E T \in Types :
              result.value = SideOf(int_in_range(Randomness, T, 0, 1).value)

(***************************************************************************)
(* encoding.rs                                                             *)
(***************************************************************************)
\* the bytes of a decoded randomness (32, scaled: one byte for every word of
\* a seed) and the length of its hex encoding (64, scaled)
OutBytes == StreamLen
EncodedLen == 2 * OutBytes

\* The characters an input is made of: hex digits of both cases, a letter
\* that is no hex digit, and a character whose UTF-8 encoding has two bytes.
HexCharacters == {"0", "d", "e", "F"}
InputChars == HexCharacters \cup {"g", "U+00E9"}

\* the UTF-8 bytes of a character
Utf8(c) == IF c = "U+00E9" THEN <<"0xC3", "0xA9">> ELSE <<c>>

\* input.as_ref() as bytes: what input.len() counts and hex decodes
RECURSIVE AsBytes(_)
AsBytes(input) ==
    IF input = <<>> THEN <<>> ELSE Utf8(Head(input)) \o AsBytes(Tail(input))

\* hex: val(c, idx), the value of a hex digit; -1 stands for the error
val(byte) ==
    CASE byte = "0" -> 0
      [] byte = "d" -> 13
      [] byte = "e" -> 14
      [] byte = "F" -> 15
      [] OTHER -> -1

\* hex: for (i, byte) in out.iter_mut().enumerate()
\*          { *byte = val(data[2 * i], 2 * i)? << 4 | val(data[2 * i + 1], 2 * i + 1)?; }
\* indices are reported counted from 0
RECURSIVE DecodePairs(_, _, _)
DecodePairs(data, i, out) ==
    IF i >= Len(data) \div 2
    THEN [kind |-> "ok", value |-> out]
    ELSE IF val(data[2 * i + 1]) < 0
         THEN [kind |-> "err", err |-> "InvalidHexCharacter",
               c |-> data[2 * i + 1], index |-> 2 * i]
         ELSE IF val(data[2 * i + 2]) < 0
              THEN [kind |-> "err", err |-> "InvalidHexCharacter",
                    c |-> data[2 * i + 2], index |-> 2 * i + 1]
              ELSE DecodePairs(data, i + 1,
                               Append(out, val(data[2 * i + 1]) * 16 + val(data[2 * i + 2])))

\* hex::decode_to_slice(data, &mut out), out of out_len bytes
decode_to_slice(data, out_len) ==
    IF Len(data) % 2 # 0
    THEN [kind |-> "err", err |-> "OddLength"]
    ELSE IF Len(data) \div 2 # out_len
         THEN [kind |-> "err", err |-> "InvalidStringLength"]
         ELSE DecodePairs(data, 0, <<>>)

\* mutant: the length checked is the number of characters
randomness_from_str_chars(input) ==
    IF Len(input) # EncodedLen
    THEN [kind |-> "err", err |-> "InvalidInputLength", n |-> Len(input)]
    ELSE LET decoded == decode_to_slice(AsBytes(input), OutBytes)
         IN  IF decoded.kind = "ok" \/ decoded.err = "InvalidHexCharacter"
             THEN decoded
             ELSE Panic("internal error: entered unreachable code")

randomness_from_str(input) ==
    IF Len(AsBytes(input)) # EncodedLen
    THEN [kind |-> "err", err |-> "InvalidInputLength", n |-> Len(AsBytes(input))]
    ELSE LET decoded == decode_to_slice(AsBytes(input), OutBytes)
         IN  IF decoded.kind = "ok" \/ decoded.err = "InvalidHexCharacter"
             THEN decoded
             ELSE Panic("internal error: entered unreachable code")

(***************************************************************************)
(* The specification of the decoding                                       *)
(***************************************************************************)
\* most characters of an input: one more than a full encoding
MaxInput == EncodedLen + 1

Inputs == UNION { [1 .. k -> InputChars] : k \in 0 .. MaxInput }

InitEncoding ==
    /\ pc = "ready"
    /\ op = "randomness_from_str"
    /\ Data \in Inputs
    /\ Randomness = <<>>
    /\ Ty = U8
    /\ Begin = 0
    /\ End = 0
    /\ Count = 0
    /\ N = 0
    /\ result = NoResult
    /\ KeyHash = <<>>
    /\ providers = <<>>

RandomnessFromStr ==
    /\ pc = "ready"
    /\ op = "randomness_from_str"
    /\ result' = randomness_from_str(Data)
    /\ pc' = "done"
    /\ UNCHANGED <<args, KeyHash, providers>>

NextEncoding == RandomnessFromStr

SpecEncoding == InitEncoding /\ [][NextEncoding]_vars

(***************************************************************************)
(* Claims about the decoding (checked under SpecEncoding)                  *)
(***************************************************************************)
\* the number of bytes of the input
RECURSIVE ByteLength(_)
ByteLength(input) ==
    IF input = <<>> THEN 0 ELSE Len(Utf8(Head(input))) + ByteLength(Tail(input))

AllHex(input) == \A k \in 1 .. Len(input) : input[k] \in HexCharacters

\* the value of a hex digit
HexValue(c) ==
    CASE c = "0" -> 0 [] c = "d" -> 13 [] c = "e" -> 14 [] c = "F" -> 15

\* C22: randomness_from_str returns Ok with the decoded bytes exactly when
\* the input is EncodedLen hex characters; an input of another byte length
\* yields InvalidInputLength with that byte length, whatever its characters;
\* an input of EncodedLen bytes with a non-hex character yields
\* InvalidHexCharacter; the unreachable!() arms are not reached.
C22_DecodesExactlyHexOfFullLength ==
    (pc = "done" /\ op = "randomness_from_str") =>
        /\ result.kind = "ok" <=> (Len(Data) = EncodedLen /\ AllHex(Data))
        /\ result.kind = "ok" =>
              /\ Len(result.value) = OutBytes
              /\ \A i \in 1 .. OutBytes :
                    result.value[i] =
                        16 * HexValue(Data[2 * i - 1]) + HexValue(Data[2 * i])
        /\ ByteLength(Data) # EncodedLen =>
              result = [kind |-> "err", err |-> "InvalidInputLength",
                        n |-> ByteLength(Data)]
        /\ (ByteLength(Data) = EncodedLen /\ ~AllHex(Data)) =>
              /\ result.kind = "err"
              /\ result.err = "InvalidHexCharacter"
        /\ result.kind # "panic"

\* fewer characters than EncodedLen but EncodedLen bytes: the length check
\* passes and the two-byte character is refused as a hex character
C22_Witness ==
    /\ pc = "done" /\ op = "randomness_from_str"
    /\ Len(Data) < EncodedLen /\ ByteLength(Data) = EncodedLen
    /\ result.kind = "err" /\ result.err = "InvalidHexCharacter"
    /\ result.index > 0


(***************************************************************************)
(* js/safe_integer.rs                                                      *)
(***************************************************************************)
\* i64, the type the JavaScript layer calls the core at
I64 == [bits |-> WideBits, signed |-> TRUE]

\* Number.MAX_SAFE_INTEGER and Number.MIN_SAFE_INTEGER: 2^53 - 1 and its
\* negative, scaled to lie strictly inside i64 as they do in the code
MAX_SAFE_INTEGER == MaxOf(I64) - 1
MIN_SAFE_INTEGER == -MAX_SAFE_INTEGER

None == [some |-> FALSE]
Some(x) == [some |-> TRUE, value |-> x]

\* An f64 is NaN, an infinity or a finite number; the finite numbers of the
\* model are the multiples of one half, held as their number of halves.
Number(halves) == [class |-> "finite", halves |-> halves]
NaN == [class |-> "NaN", halves |-> 0]
Infinity == [class |-> "+inf", halves |-> 0]
NegInfinity == [class |-> "-inf", halves |-> 0]

\* value as i64: NaN gives 0, the result is truncated toward zero and
\* saturates at the ends of i64
F64AsI64(value) ==
    CASE value.class = "NaN" -> 0
      [] value.class = "+inf" -> MaxOf(I64)
      [] value.class = "-inf" -> MinOf(I64)
      [] OTHER ->
            LET t == IF value.halves >= 0
                     THEN value.halves \div 2
                     ELSE -((-value.halves) \div 2)
            IN  IF t > MaxOf(I64) THEN MaxOf(I64)
                ELSE IF t < MinOf(I64) THEN MinOf(I64) ELSE t

\* converted as f64
I64AsF64(converted) == Number(2 * converted)

\* a != b on f64: NaN differs from everything, itself included
F64Ne(a, b) == a.class = "NaN" \/ b.class = "NaN" \/ a # b

to_safe_integer(value) ==
    LET converted == F64AsI64(value)
    IN  IF F64Ne(value, I64AsF64(converted))
        THEN None
        ELSE IF ~(MIN_SAFE_INTEGER <= converted /\ converted <= MAX_SAFE_INTEGER)
             THEN None
             ELSE Some(converted)

(***************************************************************************)
(* js/mod.rs                                                               *)
(***************************************************************************)
\* A JsValue is a number or something else (here a string); as_f64 gives the
\* number of the former only.
JsNumber(value) == [type |-> "number", f64 |-> value]
JsString == [type |-> "string", f64 |-> NaN]
as_f64(v) == IF v.type = "number" THEN Some(v.f64) ELSE None

\* JsValue::from_f64(out as f64)
from_f64(out) == JsNumber(I64AsF64(out))

\* impl fmt::Display for RandomnessFromStrErr (encoding.rs)
to_string(source) ==
    IF source.err = "InvalidInputLength"
    THEN [fmt |-> "Expected 64 hex characters but got an input of {n} bytes",
          with |-> <<source.n>>]
    ELSE [fmt |-> "Invalid character {:?} at position {}",
          with |-> <<source.c, source.index>>]

\* impl fmt::Display for Side (coinflip.rs)
SideToString(side) == IF side = "Heads" THEN "heads" ELSE "tails"

\* Err(JsError(msg)): the call ends without a call of the core
JsError(msg) == [kind |-> "err", msg |-> msg, core |-> <<>>]

\* The randomness a decoded byte array is for the generator: each (scaled)
\* byte gives one word of the seed, reduced to the width of a word.
AsRandomness(bytes) == [k \in 1 .. StreamLen |-> bytes[k] % LargeModulus]

\* let randomness = randomness_from_str(randomness_hex)?: the randomness, on
\* which the function goes on, or the Err the function returns with
question_randomness_from_str(randomness_hex) ==
    LET randomness == randomness_from_str(randomness_hex)
    IN  CASE randomness.kind = "ok" ->
                [kind |-> "continue", randomness |-> AsRandomness(randomness.value)]
          [] randomness.kind = "err" -> JsError(to_string(randomness))
          [] OTHER -> [kind |-> "panic", msg |-> randomness.msg, core |-> <<>>]

\* what a call of a core function is recorded as
CoreCall(fn, randomness, params) ==
    [fn |-> fn, randomness |-> randomness, params |-> params]

coinflip_impl(randomness_hex) ==
    LET decoded == question_randomness_from_str(randomness_hex)
    IN  IF decoded.kind # "continue"
        THEN decoded
        ELSE [kind |-> "ok",
              value |-> SideToString(coinflip(decoded.randomness).value),
              core |-> <<CoreCall("coinflip", decoded.randomness, <<>>)>>]

roll_dice_impl(randomness_hex) ==
    LET decoded == question_randomness_from_str(randomness_hex)
    IN  IF decoded.kind # "continue"
        THEN decoded
        ELSE [kind |-> roll_dice(decoded.randomness).kind,
              value |-> roll_dice(decoded.randomness).value,
              core |-> <<CoreCall("roll_dice", decoded.randomness, <<>>)>>]

\* the checks int_in_range_impl and ints_in_range_impl make on their bounds,
\* in the order of the code: the Err the function returns with, or the two
\* integers it goes on with
CheckedBounds(begin, end) ==
    IF ~as_f64(begin).some
    THEN JsError("begin is not of type number")
    ELSE IF ~as_f64(end).some
    THEN JsError("end is not of type number")
    ELSE IF ~to_safe_integer(as_f64(begin).value).some
    THEN JsError("begin is not a safe integer")
    ELSE IF ~to_safe_integer(as_f64(end).value).some
    THEN JsError("end is not a safe integer")
    ELSE IF to_safe_integer(as_f64(end).value).value
                < to_safe_integer(as_f64(begin).value).value
    THEN JsError("end must be larger than or equal to begin")
    ELSE [kind |-> "continue",
          begin |-> to_safe_integer(as_f64(begin).value).value,
          end |-> to_safe_integer(as_f64(end).value).value]

int_in_range_impl(randomness_hex, begin, end) ==
    LET bounds == CheckedBounds(begin, end)
        decoded == question_randomness_from_str(randomness_hex)
    IN  IF bounds.kind # "continue"
        THEN bounds
        ELSE IF decoded.kind # "continue"
        THEN decoded
        ELSE LET out == int_in_range(decoded.randomness, I64, bounds.begin, bounds.end)
             IN  [kind |-> out.kind,
                  value |-> IF out.kind = "ok" THEN from_f64(out.value) ELSE out.msg,
                  core |-> <<CoreCall("int_in_range", decoded.randomness,
                                      <<bounds.begin, bounds.end>>)>>]

ints_in_range_impl(randomness_hex, count, begin, end) ==
    LET bounds == CheckedBounds(begin, end)
        decoded == question_randomness_from_str(randomness_hex)
    IN  IF bounds.kind # "continue"
        THEN bounds
        ELSE IF decoded.kind # "continue"
        THEN decoded
        ELSE LET out == ints_in_range(decoded.randomness, I64, count,
                                      bounds.begin, bounds.end)
             IN  [kind |-> out.kind,
                  value |-> IF out.kind = "ok"
                            THEN [k \in 1 .. Len(out.value) |-> from_f64(out.value[k])]
                            ELSE out.msg,
                  core |-> <<CoreCall("ints_in_range", decoded.randomness,
                                      <<count, bounds.begin, bounds.end>>)>>]

(***************************************************************************)
(* js_wrapper.rs                                                           *)
(***************************************************************************)
\* hex::decode(data): a Vec of Len(data) / 2 bytes
decode(data) ==
    IF Len(data) % 2 # 0
    THEN [kind |-> "err", err |-> "OddLength"]
    ELSE DecodePairs(data, 0, <<>>)

\* cast_vec_to_array::<u8, 32>(v)
cast_vec_to_array(v) ==
    IF Len(v) = OutBytes
    THEN [kind |-> "ok", value |-> v]
    ELSE [kind |-> "panic", msg |-> "Expected a Vec of length {} but it was {}",
          with |-> <<OutBytes, Len(v)>>]

\* let hex_randomness = hex::decode(randomness).unwrap();
\* let hex_randomness_array = cast_vec_to_array(hex_randomness);
\* the array, on which the function goes on, or the panic it ends with
hex_randomness_array(randomness) ==
    LET hex_randomness == decode(AsBytes(randomness))
    IN  IF hex_randomness.kind # "ok"
        THEN [kind |-> "panic", msg |-> "called Result::unwrap() on an Err value",
              with |-> <<hex_randomness.err>>, core |-> <<>>]
        ELSE LET array == cast_vec_to_array(hex_randomness.value)
             IN  IF array.kind # "ok"
                 THEN [kind |-> "panic", msg |-> array.msg,
                       with |-> array.with, core |-> <<>>]
                 ELSE [kind |-> "continue", randomness |-> AsRandomness(array.value)]

coinflip_js(randomness) ==
    LET decoded == hex_randomness_array(randomness)
    IN  IF decoded.kind # "continue"
        THEN decoded
        ELSE [kind |-> "ok",
              value |-> SideToString(coinflip(decoded.randomness).value),
              core |-> <<CoreCall("coinflip", decoded.randomness, <<>>)>>]

roll_dice_js(randomness) ==
    LET decoded == hex_randomness_array(randomness)
    IN  IF decoded.kind # "continue"
        THEN decoded
        ELSE [kind |-> roll_dice(decoded.randomness).kind,
              value |-> roll_dice(decoded.randomness).value,
              core |-> <<CoreCall("roll_dice", decoded.randomness, <<>>)>>]

\* rand: Rng::gen_range(begin..end), the half-open range: the assertion on
\* an empty range, then sample_single(low, high), which samples low..=high-1
gen_range_exclusive(T, rng, begin, end) ==
    IF begin >= end
    THEN Panic("cannot sample empty range")
    ELSE sample_single_inclusive(T, begin, end - 1, rng)

\* int_in_range(hex_randomness_array, int_begin..int_end): the core is called
\* with the range as it came in
int_in_range_js(randomness, int_begin, int_end) ==
    LET decoded == hex_randomness_array(randomness)
    IN  IF decoded.kind # "continue"
        THEN decoded
        ELSE LET out == gen_range_exclusive(U8, make_prng(decoded.randomness),
                                            int_begin, int_end)
             IN  [kind |-> out.kind,
                  value |-> IF out.kind = "ok" THEN out.value ELSE out.msg,
                  core |-> <<CoreCall("int_in_range", decoded.randomness,
                                      <<int_begin, int_end>>)>>]

(***************************************************************************)
(* The specification of the JavaScript layer                               *)
(***************************************************************************)
\* the bytes the seeds of this specification are made of, in hex
SeedBytes == {<<"0", "0">>, <<"0", "d">>, <<"e", "e">>, <<"F", "F">>}

\* the hex encoding of a sequence of bytes
Hex(bytes) ==
    [k \in 1 .. (2 * Len(bytes)) |-> bytes[(k + 1) \div 2][((k - 1) % 2) + 1]]

\* well-formed seeds, and malformed ones: empty, of odd length, a byte
\* short, a byte long, with a letter that is no hex digit, with a two-byte
\* character
JsSeeds ==
    LET full == [k \in 1 .. EncodedLen |-> "F"]
    IN  { Hex(bytes) : bytes \in [1 .. OutBytes -> SeedBytes] }
        \cup {<<>>,
              [k \in 1 .. (EncodedLen - 1) |-> "F"],
              [k \in 1 .. (EncodedLen - 2) |-> "F"],
              [k \in 1 .. (EncodedLen + 2) |-> "F"],
              [full EXCEPT ![EncodedLen] = "g"],
              [full EXCEPT ![1] = "U+00E9"]}

\* the values JavaScript passes as a bound: a string, NaN, the infinities,
\* and the multiples of one half up to two beyond the ends of i64
JsValues ==
    {JsString, JsNumber(NaN), JsNumber(Infinity), JsNumber(NegInfinity)}
        \cup { JsNumber(Number(h)) :
                 h \in (2 * (MinOf(I64) - 1)) .. (2 * (MaxOf(I64) + 2)) }

JsModuleOps == {"js::coinflip", "js::roll_dice", "js::int_in_range", "js::ints_in_range"}
JsWrapperOps == {"coinflip_js", "roll_dice_js", "int_in_range_js"}

\* the bounds an operation takes
BoundsOf(o) ==
    CASE o \in {"js::int_in_range", "js::ints_in_range"} -> JsValues
      [] o = "int_in_range_js" -> Values(U8)
      [] OTHER -> {0}

InitJs ==
    /\ pc = "ready"
    /\ op \in JsModuleOps \cup JsWrapperOps
    /\ Data \in JsSeeds
    /\ Begin \in BoundsOf(op)
    /\ End \in BoundsOf(op)
    /\ Count \in IF op = "js::ints_in_range" THEN 0 .. MaxCount ELSE {0}
    /\ Randomness = <<>>
    /\ Ty = IF op \in JsWrapperOps THEN U8 ELSE I64
    /\ N = 0
    /\ result = NoResult
    /\ KeyHash = <<>>
    /\ providers = <<>>

\* what the exported function named o returns
JsCall(o) ==
    CASE o = "js::coinflip" -> coinflip_impl(Data)
      [] o = "js::roll_dice" -> roll_dice_impl(Data)
      [] o = "js::int_in_range" -> int_in_range_impl(Data, Begin, End)
      [] o = "js::ints_in_range" -> ints_in_range_impl(Data, Count, Begin, End)
      [] o = "coinflip_js" -> coinflip_js(Data)
      [] o = "roll_dice_js" -> roll_dice_js(Data)
      [] o = "int_in_range_js" -> int_in_range_js(Data, Begin, End)

JsCoinflip ==
    /\ pc = "ready" /\ op = "js::coinflip"
    /\ result' = JsCall(op)
    /\ pc' = "done"
    /\ UNCHANGED <<args, KeyHash, providers>>

JsRollDice ==
    /\ pc = "ready" /\ op = "js::roll_dice"
    /\ result' = JsCall(op)
    /\ pc' = "done"
    /\ UNCHANGED <<args, KeyHash, providers>>

JsIntInRange ==
    /\ pc = "ready" /\ op = "js::int_in_range"
    /\ result' = JsCall(op)
    /\ pc' = "done"
    /\ UNCHANGED <<args, KeyHash, providers>>

JsIntsInRange ==
    /\ pc = "ready" /\ op = "js::ints_in_range"
    /\ result' = JsCall(op)
    /\ pc' = "done"
    /\ UNCHANGED <<args, KeyHash, providers>>

CoinflipJs ==
    /\ pc = "ready" /\ op = "coinflip_js"
    /\ result' = JsCall(op)
    /\ pc' = "done"
    /\ UNCHANGED <<args, KeyHash, providers>>

RollDiceJs ==
    /\ pc = "ready" /\ op = "roll_dice_js"
    /\ result' = JsCall(op)
    /\ pc' = "done"
    /\ UNCHANGED <<args, KeyHash, providers>>

IntInRangeJs ==
    /\ pc = "ready" /\ op = "int_in_range_js"
    /\ result' = JsCall(op)
    /\ pc' = "done"
    /\ UNCHANGED <<args, KeyHash, providers>>

NextJs ==
    \/ JsCoinflip
    \/ JsRollDice
    \/ JsIntInRange
    \/ JsIntsInRange
    \/ CoinflipJs
    \/ RollDiceJs
    \/ IntInRangeJs

SpecJs == InitJs /\ [][NextJs]_vars

(***************************************************************************)
(* Claims about the JavaScript layer (checked under SpecJs)                *)
(***************************************************************************)
\* a seed of exactly OutBytes bytes, written in hex
WellFormedSeed(seed) == Len(seed) = EncodedLen /\ AllHex(seed)

\* a bound that is a number, integral and in the safe-integer range
\* (the bounds of the js_wrapper functions are u8 values: always so)
WellFormedBound(v) ==
    IF op = "int_in_range_js"
    THEN TRUE
    ELSE /\ v.type = "number"
         /\ v.f64.class = "finite"
         /\ v.f64.halves % 2 = 0
         /\ MIN_SAFE_INTEGER <= v.f64.halves \div 2
         /\ v.f64.halves \div 2 <= MAX_SAFE_INTEGER

\* the integer a well-formed bound stands for
BoundValue(v) == IF op = "int_in_range_js" THEN v ELSE v.f64.halves \div 2

TakesBounds == op \in {"js::int_in_range", "js::ints_in_range", "int_in_range_js"}

Malformed ==
    \/ ~WellFormedSeed(Data)
    \/ /\ TakesBounds
       /\ \/ ~WellFormedBound(Begin)
          \/ ~WellFormedBound(End)
          \/ BoundValue(End) < BoundValue(Begin)

\* C23: a call of the JavaScript layer with a malformed seed, a bound that is
\* no safe integer, or end < begin ends without a value, and the core
\* function has not been called.
C23_MalformedNeverReachesCore ==
    (pc = "done" /\ Malformed) =>
        /\ result.kind \in {"err", "panic"}
        /\ result.core = <<>>

\* the part of C23 that is about js/mod.rs alone
JsModuleRejects ==
    (pc = "done" /\ op \in JsModuleOps /\ Malformed) =>
        /\ result.kind = "err"
        /\ result.core = <<>>

\* the integer an exported integer-in-range function returned
ReturnedInt(res) == IF op = "int_in_range_js" THEN res.value ELSE res.value.f64.halves \div 2

\* the core function at the type of the exported one
CoreIntInRange(seed, begin, end) ==
    int_in_range(AsRandomness(decode(AsBytes(seed)).value), Ty, begin, end)

\* C24: for a well-formed seed and begin <= end, the exported
\* integer-in-range function returns a value in [begin, end], the value
\* begin when begin = end, the value the core int_in_range returns for
\* begin..=end, and some seed makes it return end.
C24_InclusiveLikeCore ==
    (/\ pc = "done" /\ op \in {"js::int_in_range", "int_in_range_js"}
     /\ ~Malformed) =>
        /\ result.kind = "ok"
        /\ BoundValue(Begin) <= ReturnedInt(result)
        /\ ReturnedInt(result) <= BoundValue(End)
        /\ BoundValue(Begin) = BoundValue(End) => ReturnedInt(result) = BoundValue(Begin)
        /\ ReturnedInt(result)
              = CoreIntInRange(Data, BoundValue(Begin), BoundValue(End)).value
        /\ \E seed \in { s \in JsSeeds : WellFormedSeed(s) } :
              /\ JsCall(op).kind = "ok"
              /\ LET res == IF op = "int_in_range_js"
                            THEN int_in_range_js(seed, Begin, End)
                            ELSE int_in_range_impl(seed, Begin, End)
                 IN  res.kind = "ok" /\ ReturnedInt(res) = BoundValue(End)

\* the part of C24 that is about js/mod.rs alone
JsModuleInclusive ==
    op = "js::int_in_range" => C24_InclusiveLikeCore


(***************************************************************************)
(* The specification of interleaved calls: two providers over one          *)
(* randomness, built and pulled from in any order, and derivation calls on *)
(* the same randomness between them                                        *)
(***************************************************************************)
DerivationCalls == {"int_in_range", "shuffle", "roll_dice"}

\* what the derivation named d returns on the randomness of the providers
Derived(d) ==
    CASE d = "int_in_range" -> int_in_range(Randomness, U32, 0, MaxOf(U32) - 1)
      [] d = "shuffle" -> shuffle(Randomness, Iota(MaxLen))
      [] d = "roll_dice" -> roll_dice(Randomness)

\* a derivation call made while the providers exist
Derive(d) ==
    /\ result' = [fn |-> d, returned |-> Derived(d)]
    /\ UNCHANGED <<pc, args, KeyHash, providers>>

NextInterleaved ==
    \/ \E i \in ProviderIds :
          \/ SubRandomness(i)
          \/ \E key \in Keys : SubRandomnessWithKey(i, key)
          \/ Provide(i)
    \/ \E d \in DerivationCalls : Derive(d)

SpecInterleaved == InitProviders /\ [][NextInterleaved]_vars

(***************************************************************************)
(* Claims about interleaved calls (checked under SpecInterleaved)          *)
(***************************************************************************)
\* the provider the constructor of p returns
Fresh(p) ==
    IF p.ctor = "sub_randomness"
    THEN sub_randomness(Randomness)
    ELSE sub_randomness_with_key(Randomness, p.key)

\* the first n values of a provider that nothing else runs beside
RECURSIVE AloneOuts(_, _)
AloneOuts(self, n) ==
    IF n = 0
    THEN <<>>
    ELSE <<provide(self).value>> \o AloneOuts(provide(self).self, n - 1)

\* provider i has returned what it returns alone, and stands where it
\* stands alone
RunsAsAlone(i) ==
    providers[i].built =>
        /\ providers[i].outs = AloneOuts(Fresh(providers[i]), Len(providers[i].outs))
        /\ providers[i].self.rng.drawn = StreamLen * Len(providers[i].outs)

\* C25: whatever the interleaving of constructions, provide() calls on two
\* providers and other derivation calls, every provider has returned the
\* sequence it returns when run alone; a step on one provider leaves the
\* other provider as it was, no provider step changes what a derivation
\* returned, no derivation changes a provider, and no step changes the
\* randomness or the hash of a key.
C25_InterleavingIsInvisible ==
    /\ [](\A i \in ProviderIds : RunsAsAlone(i))
    /\ [][/\ \A i, j \in ProviderIds :
                (i # j /\ providers'[i] # providers[i]) =>
                    providers'[j] = providers[j]
          /\ providers' # providers => result' = result
          /\ result' # result =>
                /\ providers' = providers
                /\ \E d \in DerivationCalls :
                      result' = [fn |-> d, returned |-> Derived(d)]
          /\ Randomness' = Randomness
          /\ KeyHash' = KeyHash]_vars

\* two providers of different keys and different streams, both pulled dry,
\* and a derivation made as well
C25_Witness ==
    /\ WithKey(1) /\ WithKey(2) /\ providers[1].key # providers[2].key
    /\ Len(providers[1].outs) = MaxProvided
    /\ Len(providers[2].outs) = MaxProvided
    /\ providers[1].outs # providers[2].outs
    /\ providers[1].outs[1] # providers[1].outs[MaxProvided]
    /\ result # NoResult


(***************************************************************************)
(* Claims about the mixing of the key (checked under SpecProviders)        *)
(***************************************************************************)
\* the number of positions of the randomness the hash of the key covers
MixedWidth(key) == Len(xxh3_128(key))

\* the generator of provider i was made from the caller's randomness with
\* the hash of the key xor-ed into its first positions and the positions
\* after them as they were
MixedIntoPrefix(i) ==
    \A pos \in 1 .. StreamLen :
        SeededWith(i)[pos] =
            IF pos <= MixedWidth(providers[i].key)
            THEN BitXor(Randomness[pos], xxh3_128(providers[i].key)[pos])
            ELSE Randomness[pos]

\* C26 as stated: the hash is mixed over a width that covers most of the
\* seed, the positions outside reach make_prng unchanged, and the caller's
\* seed is not modified.
C26_MixedOverMostOfSeed ==
    /\ [](\A i \in ProviderIds :
            providers[i].built =>
                /\ 2 * MixedWidth(providers[i].key) > StreamLen
                /\ MixedIntoPrefix(i))
    /\ [][Randomness' = Randomness]_vars

\* C26: the hash is mixed by XOR into the first positions of the seed, a
\* width of at most half of it (16 of 32 bytes); the positions outside reach
\* make_prng unchanged; the caller's seed is not modified.
C26_MixedOverHalfOfSeed ==
    /\ [](\A i \in ProviderIds :
            providers[i].built =>
                /\ MixedWidth(providers[i].key) > 0
                /\ 2 * MixedWidth(providers[i].key) <= StreamLen
                /\ MixedIntoPrefix(i))
    /\ [][Randomness' = Randomness]_vars

\* a provider whose generator was made from a seed that differs from the
\* caller's in the first position and not in the last, pulled from
C26_Witness ==
    /\ WithKey(1)
    /\ SeededWith(1)[1] # Randomness[1]
    /\ SeededWith(1)[StreamLen] = Randomness[StreamLen]
    /\ Randomness[StreamLen] # 0
    /\ Len(providers[1].outs) > 0


(***************************************************************************)
(* Claims about pick against shuffle (checked under SpecPermute)           *)
(***************************************************************************)
\* the swaps of the full shuffle of the vector pick was called with
ShuffleSwaps == shuffle(Randomness, Data).swaps

\* the steps of the full shuffle after the first n touch no position among
\* the last n
RestLeavesTail ==
    \A k \in (N + 1) .. Len(ShuffleSwaps) :
        /\ ShuffleSwaps[k][1] < Len(Data) - N
        /\ ShuffleSwaps[k][2] < Len(Data) - N

\* C27 as stated: for n <= len(data), pick returns the last n elements of
\* the shuffle, its swaps are the first n swaps of the shuffle, and the
\* remaining swaps of the shuffle touch none of the last n positions.
C27_PickMakesFirstSwapsOfShuffle ==
    (pc = "done" /\ op = "pick" /\ N <= Len(Data)) =>
        /\ result.kind = "ok"
        /\ result.value = split_off(shuffle(Randomness, Data).value, Len(Data) - N)
        /\ Len(ShuffleSwaps) >= N
        /\ result.swaps = Prefix(ShuffleSwaps, Len(result.swaps))
        /\ RestLeavesTail

\* C27: for n <= len(data), pick returns the last n elements of the shuffle;
\* for n < len(data) its swaps are the first n swaps of the shuffle and the
\* remaining swaps of the shuffle touch none of the last n positions; for
\* n = len(data) > 0 it makes every swap of the shuffle and one step more, at
\* i = 0, which draws from 0..=0 and swaps position 0 with itself.
C27_PickIsTailOfShuffle ==
    (pc = "done" /\ op = "pick" /\ N <= Len(Data)) =>
        /\ result.kind = "ok"
        /\ result.value = split_off(shuffle(Randomness, Data).value, Len(Data) - N)
        /\ Len(result.swaps) = N
        /\ N < Len(Data) =>
              /\ Len(ShuffleSwaps) >= N
              /\ result.swaps = Prefix(ShuffleSwaps, N)
              /\ RestLeavesTail
        /\ (N = Len(Data) /\ N > 0) =>
              /\ Len(ShuffleSwaps) = N - 1
              /\ result.swaps = Append(ShuffleSwaps, <<0, 0>>)
              /\ result.rng.drawn > shuffle(Randomness, Data).rng.drawn

\* one of three picked: the element picked is not the one that stood last,
\* and the shuffle goes on to swap the two positions in front
C27_Witness ==
    /\ Returned /\ op = "pick" /\ Len(Data) = 3 /\ N = 1
    /\ result.swaps[1][2] # 2
    /\ Len(ShuffleSwaps) = 2
    /\ ShuffleSwaps[2] = <<1, 0>>
    /\ shuffle(Randomness, Data).value # Data


(***************************************************************************)
(* Claims about the loops of shuffle and pick (checked under SpecPermute)  *)
(***************************************************************************)
\* the vector after the first k swaps of the call
RECURSIVE AfterSwaps(_, _, _)
AfterSwaps(d, swaps, k) ==
    IF k = 0
    THEN d
    ELSE Swap(AfterSwaps(d, swaps, k - 1), swaps[k][1], swaps[k][2])

\* the number of iterations of the loop of the call
Iterations ==
    IF op = "pick"
    THEN N
    ELSE IF Len(Data) = 0 THEN 0 ELSE Len(Data) - 1

\* C28: in the loops of shuffle and pick i runs downward from len - 1 (to 1
\* in shuffle, to len - n in pick), the sampled j satisfies 0 <= j <= i < len,
\* and a position above i holds from step i on the element the loop ends
\* with.
C28_SwapsWithinBounds ==
    (Returned /\ op \in {"shuffle", "pick"}) =>
        LET len == Len(Data)
            swaps == result.swaps
            final == AfterSwaps(Data, swaps, Len(swaps))
        IN  /\ Len(swaps) = Iterations
            /\ \A k \in 1 .. Len(swaps) :
                  /\ swaps[k][1] = len - k
                  /\ 0 <= swaps[k][2]
                  /\ swaps[k][2] <= swaps[k][1]
                  /\ swaps[k][1] < len
                  /\ \A above \in (swaps[k][1] + 1) .. (len - 1) :
                        \A later \in (k - 1) .. Len(swaps) :
                            AfterSwaps(Data, swaps, later)[above + 1]
                                = final[above + 1]
            /\ Len(swaps) > 0 =>
                  swaps[Len(swaps)][1] = IF op = "pick" THEN len - N ELSE 1
            /\ op = "shuffle" => result.value = final
            /\ op = "pick" => result.value = split_off(final, len - N)

\* a shuffle of three elements whose first step moves an element to the
\* last position and whose second step swaps the two in front
C28_Witness ==
    /\ Returned /\ op = "shuffle" /\ Len(Data) = 3
    /\ result.swaps[1][2] < 2
    /\ result.swaps[2] = <<1, 0>>
    /\ Data[1] # Data[2]
    /\ Data[3] # Data[result.swaps[1][2] + 1]


(***************************************************************************)
(* Claims about the two weighted selections (checked under SpecWeighted)   *)
(***************************************************************************)
\* what a call of either function gives its caller: Ok with an element, Err
\* with a message, or a panic with a message
OutcomeOf(res) ==
    CASE res.kind = "ok" ->
            <<"Ok", IF "walk" \in DOMAIN res THEN res.walk.value ELSE res.value>>
      [] res.kind = "err" -> <<"Err", res.msg>>
      [] OTHER -> <<"panic", res.msg>>

\* C29: for every seed and every list pick_one_from_weighted_list and
\* select_from_weighted return the same Ok element or the same Err message,
\* and the list is after the call what it was before.
C29_WeightedVariantsAgree ==
    /\ [](pc = "done" =>
            /\ op = "select_from_weighted" =>
                  OutcomeOf(result)
                      = OutcomeOf(pick_one_from_weighted_list(Randomness, Data))
            /\ op = "pick_one_from_weighted_list" =>
                  OutcomeOf(result)
                      = OutcomeOf(select_from_weighted(Randomness, Data)))
    /\ [][Data' = Data]_vars

\* pick_one_from_weighted_list returned an element that is not the first of
\* a list of three
C29_Witness ==
    /\ pc = "done" /\ op = "pick_one_from_weighted_list"
    /\ Len(Data) = 3
    /\ result.kind = "ok"
    /\ result.value # ItemOf(Data[1])
    /\ OutcomeOf(select_from_weighted(Randomness, Data)) = <<"Ok", result.value>>

\* the first position of the list whose element has a zero weight or brings
\* the sum of the weights beyond u32::MAX; 0 when there is none
FirstOffence(list) ==
    LET offending == { k \in 1 .. Len(list) :
                         \/ WeightOf(list[k]) = 0
                         \/ CumulativeWeight(list, k) > MaxOf(U32) }
    IN  IF offending = {}
        THEN 0
        ELSE CHOOSE k \in offending : \A o \in offending : k <= o

\* C30: select_from_weighted reports the empty list first, and otherwise the
\* error of the first offending position in list order: a zero weight there,
\* or else the overflow of the sum there, whatever errors later elements hold.
C30_FirstOffenceReported ==
    (pc = "done" /\ op = "select_from_weighted") =>
        /\ Len(Data) = 0 => result = Err("List must not be empty")
        /\ (Len(Data) > 0 /\ FirstOffence(Data) = 0) => result.kind = "ok"
        /\ (Len(Data) > 0 /\ FirstOffence(Data) > 0) =>
              result = IF WeightOf(Data[FirstOffence(Data)]) = 0
                       THEN Err("All element weights should be >= 1")
                       ELSE Err("Total weight is greater than maximum value of u32")

\* the sum overflows at the second element and the third has a zero weight:
\* the overflow is reported
C30_Witness ==
    /\ pc = "done" /\ op = "select_from_weighted"
    /\ Len(Data) = 3
    /\ FirstOffence(Data) = 2
    /\ WeightOf(Data[3]) = 0
    /\ result = Err("Total weight is greater than maximum value of u32")

====
